---- MODULE Spec2Model ----
(***************************************************************************)
(* A model of the cryo-quantum control stack:                              *)
(*   - CryogenicControlSystem / TransmonQubit (qubit collection, X gate,   *)
(*     shot-based readout through the two amplifier stages),               *)
(*   - the gate-execution endpoint of the API,                             *)
(*   - TwoQubitGate.apply_to_state and EntanglementVerification (pure      *)
(*     functions on two-qubit state vectors).                              *)
(*                                                                         *)
(* Numbers.  Amplitudes are exact: a complex number is a record            *)
(* [re, im] of integers, and a vector carries a common scale, so that      *)
(* the vector [amp, sq, den] stands for amp / (den * sqrt(2)^sq).  The     *)
(* floating-point rounding of numpy is not modelled: "equal up to          *)
(* floating tolerance" is equality of the exact values.  Probabilities are *)
(* in percent.                                                             *)
(***************************************************************************)
EXTENDS Integers, Sequences, FiniteSets, TLC

VARIABLES
    qubits,     \* CryogenicControlSystem.qubits: the list of handle ids
    objs,       \* the TransmonQubit objects, by handle id
    recs,       \* the measurement dicts ever created, by record id
    returned,   \* history: the handles add_qubit returned, in call order
    xcount,     \* history: per handle, the number of apply_x_gate calls
    ret,        \* the last control-system / API call and its outcome
    gcall,      \* the last pure gate / entanglement call and its outcome
    chain,      \* history: the signals of the last completed readout chain
    qec         \* the QEC engine, its code strategy object and its last call

vars == <<qubits, objs, recs, returned, xcount, ret, gcall, chain, qec>>

----------------------------------------------------------------------------
(* Bounds of the model *)

MaxQubits == 2      \* qubits added to the control system
MaxOps == 3         \* state-changing calls (add, X gate, measurement) in a run
MaxAmp == 1         \* |re| + |im| of an input amplitude numerator
MaxSq == 2          \* largest power of 1/sqrt(2) scaling an input vector
MaxLen == 5         \* longest input vector handed to calculate_concurrence

----------------------------------------------------------------------------
(* Complex numbers and scaled vectors *)

Cx(r, i) == [re |-> r, im |-> i]
CZero == Cx(0, 0)
COne == Cx(1, 0)
CAdd(a, b) == Cx(a.re + b.re, a.im + b.im)
CMul(a, b) == Cx(a.re * b.re - a.im * b.im, a.re * b.im + a.im * b.re)
CConj(a) == Cx(a.re, 0 - a.im)
CScale(k, a) == Cx(k * a.re, k * a.im)
\* np.abs(z) ** 2
CAbs2(a) == a.re * a.re + a.im * a.im

RECURSIVE Pow(_, _)
Pow(b, e) == IF e = 0 THEN 1 ELSE b * Pow(b, e - 1)

RECURSIVE CSum(_)
CSum(s) == IF s = <<>> THEN CZero ELSE CAdd(Head(s), CSum(Tail(s)))

RECURSIVE ISum(_)
ISum(s) == IF s = <<>> THEN 0 ELSE Head(s) + ISum(Tail(s))

\* M @ v for an integer (real) matrix M and a complex vector v
MatVec(M, v) ==
    [i \in 1..Len(M) |-> CSum([j \in 1..Len(v) |-> CScale(M[i][j], v[j])])]

\* np.kron(A, B) for two 2x2 matrices
Kron(A, B) ==
    [i \in 1..4 |-> [j \in 1..4 |->
        A[((i - 1) \div 2) + 1][((j - 1) \div 2) + 1]
      * B[((i - 1) % 2) + 1][((j - 1) % 2) + 1]]]

\* sum of squared magnitudes of the numerators
Norm2(v) == ISum([i \in 1..Len(v) |-> CAbs2(v[i])])

----------------------------------------------------------------------------
(* Two-qubit gates and entanglement verification (two_qubit_gates.py) *)

Vec(amp, sq, den) == [amp |-> amp, sq |-> sq, den |-> den]

\* The gate kinds a caller may name; only CNOT and CZ have a matrix.
GateKinds == {"CNOT", "CZ", "SWAP", "CR"}

Eye2 == <<<<1, 0>>, <<0, 1>>>>

\* H = HNumer / sqrt(2)
HNumer == <<<<1, 1>>, <<1, -1>>>>

\* A permutation matrix exchanging the |00> and |01> amplitudes
CnotMatrixOnLowPair ==
    << <<0, 1, 0, 0>>,
       <<1, 0, 0, 0>>,
       <<0, 0, 1, 0>>,
       <<0, 0, 0, 1>> >>

CnotMatrix ==
    << <<1, 0, 0, 0>>,
       <<0, 1, 0, 0>>,
       <<0, 0, 0, 1>>,
       <<0, 0, 1, 0>> >>

CzMatrix ==
    << <<1, 0, 0, 0>>,
       <<0, 1, 0, 0>>,
       <<0, 0, 1, 0>>,
       <<0, 0, 0, -1>> >>

\* np.vdot(a, b): the first argument is conjugated
vdot(a, b) == CSum([i \in 1..Len(a) |-> CMul(CConj(a[i]), b[i])])

\* create_bell_state with the CNOT branch's matrix left as the identity
create_bell_state_identity_cnot(gate_type) ==
    LET state0 == Vec(<<COne, CZero, CZero, CZero>>, 0, 1)
        state1 == Vec(MatVec(Kron(HNumer, Eye2), state0.amp), state0.sq + 1, state0.den)
        cz == << <<1, 0, 0, 0>>, <<0, 1, 0, 0>>, <<0, 0, 1, 0>>, <<0, 0, 0, -1>> >>
    IN  IF gate_type = "CZ"
        THEN [status |-> "ok", state |-> Vec(MatVec(cz, state1.amp), state1.sq, state1.den)]
        ELSE [status |-> "ok", state |-> state1]

\* EntanglementVerification.create_bell_state: |00>, then H (x) I, then the
\* gate; a kind that is neither CNOT nor CZ falls through both branches and the
\* state after the Hadamard is returned.
create_bell_state(gate_type) ==
    LET state0 == Vec(<<COne, CZero, CZero, CZero>>, 0, 1)
        H_full == Kron(HNumer, Eye2)
        state1 == Vec(MatVec(H_full, state0.amp), state0.sq + 1, state0.den)
        cnot == << <<1, 0, 0, 0>>, <<0, 1, 0, 0>>, <<0, 0, 0, 1>>, <<0, 0, 1, 0>> >>
        cz == << <<1, 0, 0, 0>>, <<0, 1, 0, 0>>, <<0, 0, 1, 0>>, <<0, 0, 0, -1>> >>
    IN  IF gate_type = "CNOT"
        THEN [status |-> "ok", state |-> Vec(MatVec(cnot, state1.amp), state1.sq, state1.den)]
        ELSE IF gate_type = "CZ"
        THEN [status |-> "ok", state |-> Vec(MatVec(cz, state1.amp), state1.sq, state1.den)]
        ELSE [status |-> "ok", state |-> state1]

\* calculate_concurrence against a reference state that is not normalised
calculate_concurrence_unnormalised(state) ==
    IF Len(state.amp) # 4
    THEN [status |-> "ValueError", msg |-> "State must be two-qubit state",
          num |-> 0, den |-> 1]
    ELSE LET dot == vdot(state.amp, <<COne, CZero, CZero, COne>>)
         IN  [status |-> "ok", msg |-> "",
              num |-> CAbs2(dot),
              den |-> state.den * state.den * Pow(2, state.sq)]

\* EntanglementVerification.calculate_concurrence: |<state, bell>|^2 as the
\* exact fraction num / den.
calculate_concurrence(state) ==
    IF Len(state.amp) # 4
    THEN [status |-> "ValueError", msg |-> "State must be two-qubit state",
          num |-> 0, den |-> 1]
    ELSE LET bell_state == Vec(<<COne, CZero, CZero, COne>>, 1, 1)
             dot == vdot(state.amp, bell_state.amp)
             d == state.den * bell_state.den
         IN  [status |-> "ok", msg |-> "",
              num |-> CAbs2(dot),
              den |-> d * d * Pow(2, state.sq + bell_state.sq)]

\* The noise matrices of the model, in units of 0.01: one entry of the gate
\* matrix is moved by +-0.01 (a subset of the outcomes of
\* 0.01 * np.random.normal(0, 1, (4, 4))).
UnitNoise(r, c, s) ==
    [i \in 1..4 |-> [j \in 1..4 |-> IF i = r /\ j = c THEN s ELSE 0]]

NoiseMatrices == {UnitNoise(r, c, s) : r \in {1, 4}, c \in {1, 3}, s \in {-1, 1}}

ZeroNoise == [i \in 1..4 |-> [j \in 1..4 |-> 0]]

\* A gate selection whose last branch takes every remaining kind for CZ
SelectGateMatrixDefaultCz(gate_type) ==
    IF gate_type = "CNOT" THEN CnotMatrix ELSE CzMatrix

\* The gate matrix apply_to_state selects, or <<>> for an unsupported kind.
SelectGateMatrix(gate_type) ==
    IF gate_type = "CNOT" THEN CnotMatrix
    ELSE IF gate_type = "CZ" THEN CzMatrix
    ELSE <<>>

\* TwoQubitGate.apply_to_state.  u is the uniform draw and fidelity the
\* spec's fidelity, both in percent; noise is the normal draw, used only
\* when u > fidelity.  draws counts the calls of the random generator;
\* arg_after is the caller's array after the call.
apply_to_state(gate_type, fidelity, state, u, noise) ==
    LET gate_matrix == SelectGateMatrix(gate_type)
    IN  IF gate_matrix = <<>>
        THEN [status |-> "ValueError",
              msg |-> <<"Unsupported gate type: ", gate_type>>,
              draws |-> 0, out |-> Vec(<<>>, 0, 1), arg_after |-> state]
        ELSE IF u > fidelity
        THEN [status |-> "ok", msg |-> <<>>, draws |-> 2,
              out |-> Vec(MatVec([i \in 1..4 |-> [j \in 1..4 |->
                                    100 * gate_matrix[i][j] + noise[i][j]]],
                                 state.amp),
                          state.sq, state.den * 100),
              arg_after |-> state]
        ELSE [status |-> "ok", msg |-> <<>>, draws |-> 1,
              out |-> Vec(MatVec(gate_matrix, state.amp), state.sq, state.den),
              arg_after |-> state]

----------------------------------------------------------------------------
(* Qubits (transmon_qubit.py) *)

\* The QubitSpec values of the model: the readout tone's frequency (in
\* quarter turns per sample) and amplitude (in units of the drive amplitude).
QubitSpecs == {[readout_frequency |-> 1, readout_amplitude |-> a] : a \in {0, 1}}

\* The shot counts a caller may pass; numpy rejects a negative size.
ShotChoices == {-1, 0, 2}

XMatrix == <<<<0, 1>>, <<1, 0>>>>

\* TransmonQubit.__init__: |0>, no measurement yet, 15 mK
TransmonQubit(spec) ==
    [spec |-> spec, temperature |-> 15,
     state |-> <<COne, CZero>>, measurement_results |-> <<>>]

\* A gate that applies Z where X is meant
ZGateState(state) == MatVec(<<<<1, 0>>, <<0, -1>>>>, state)

\* The state after apply_x_gate: X @ self._state
XGateState(state) == MatVec(XMatrix, state)

\* readout_fidelity of simulate_measurement, in percent
ReadoutFidelity == 95

\* A count that skips the first shot
CountEqSkipFirst(measurements, v) ==
    Cardinality({k \in 2..Len(measurements) : measurements[k] = v})

\* Number of entries of the measurement array equal to v
CountEq(measurements, v) ==
    Cardinality({k \in 1..Len(measurements) : measurements[k] = v})

\* The dict simulate_measurement builds from the shot outcomes
MeasurementRecord(state, measurements) ==
    LET p1 == CAbs2(state[2])
    IN  [k \in {"0", "1", "readout_fidelity", "true_probability"} |->
            CASE k = "0" -> CountEq(measurements, 0)
              [] k = "1" -> CountEq(measurements, 1)
              [] k = "readout_fidelity" -> ReadoutFidelity
              [] OTHER -> p1]

\* p1 * readout_fidelity + (1 - p1) * (1 - readout_fidelity), in percent
P1Measured(state) ==
    LET p1 == CAbs2(state[2])
    IN  p1 * ReadoutFidelity + (1 - p1) * (100 - ReadoutFidelity)

\* The outcomes of np.random.binomial(1, p, shots): every 0/1 array of that
\* length when 0 < p < 100, and only the constant one at p = 0 or p = 100.
Binomial(p, shots) ==
    {m \in [1..shots -> {0, 1}] :
        /\ (p = 0 => \A k \in 1..shots : m[k] = 0)
        /\ (p = 100 => \A k \in 1..shots : m[k] = 1)}

\* dict.update
DictUpdate(d, e) ==
    [k \in DOMAIN d \cup DOMAIN e |-> IF k \in DOMAIN e THEN e[k] ELSE d[k]]

----------------------------------------------------------------------------
(* The amplifier chain (signal_chain.py) *)

\* Samples of a readout tone in the model (the code takes 1000)
NSamples == 2

\* i^k
IPow(k) ==
    CASE k % 4 = 0 -> Cx(1, 0)
      [] k % 4 = 1 -> Cx(0, 1)
      [] k % 4 = 2 -> Cx(-1, 0)
      [] OTHER -> Cx(0, -1)

\* _generate_readout_signal: amplitude * exp(2j pi f t), sampled
generate_readout_signal(spec) ==
    [k \in 1..NSamples |->
        CScale(spec.readout_amplitude, IPow(spec.readout_frequency * (k - 1)))]

\* 10 ** (gain / 20), rounded to an integer
GainLinear(gain_db) ==
    CASE gain_db = 35 -> 56
      [] gain_db = 25 -> 18
      [] OTHER -> 1

\* The two stages with their specs exchanged
AmplifiersSwapped ==
    [s \in {"4K", "MXC"} |->
        IF s = "4K" THEN [gain |-> 25, noise_temperature |-> 5]
        ELSE [gain |-> 35, noise_temperature |-> 2]]

\* The amplifier specs of CryogenicControlSystem.__init__
Amplifiers ==
    [s \in {"4K", "MXC"} |->
        IF s = "4K" THEN [gain |-> 35, noise_temperature |-> 2]
        ELSE [gain |-> 25, noise_temperature |-> 5]]

\* The complex Gaussian noise arrays of the model: samples of the noise a
\* stage adds (never all zero: the draw is continuous).
NoiseArrays ==
    { [k \in 1..NSamples |-> IPow(k)],
      [k \in 1..NSamples |-> Cx(k % 2, 1)] }

\* The outcomes of the random generator over one readout chain: the array
\* drawn by the 4K stage and the array drawn by the MXC stage.
NoiseDraws == {d \in NoiseArrays \X NoiseArrays : d[1] # d[2]}

\* CryogenicAmplifier.process_signal
process_signal(amp, input_signal, complex_noise) ==
    [k \in 1..Len(input_signal) |->
        CAdd(CScale(GainLinear(amp.gain), input_signal[k]), complex_noise[k])]

\* np.mean(np.abs(x) ** 2), times the number of samples
Power(x) == Norm2(x)

\* np.var(x), times the square of the number of samples
Variance(x) == Len(x) * Norm2(x) - CAbs2(CSum(x))

\* input_snr - output_snr as the fraction num / den
calculate_snr_difference(input_signal, output_signal) ==
    [num |-> Variance(output_signal) * Power(input_signal)
                - Power(output_signal) * Variance(input_signal),
     den |-> Variance(output_signal) * Variance(input_signal)]

\* _calculate_snr_improvement: output_snr / input_snr as the fraction
\* num / den; a zero den is numpy's inf or nan.
calculate_snr_improvement(input_signal, output_signal) ==
    [num |-> Power(output_signal) * Variance(input_signal),
     den |-> Variance(output_signal) * Power(input_signal)]

\* The kind of a non-negative float: zero or positive and finite
FloatKind(x) == IF x = 0 THEN "zero" ELSE "pos"

\* numpy's float division n / d by kind of value: a division by zero does not
\* raise, it gives inf, or nan for 0 / 0; inf / inf is nan
FloatDivKind(n, d) ==
    CASE n = "nan" \/ d = "nan" -> "nan"
      [] n = "zero" /\ d = "zero" -> "nan"
      [] n = "inf" /\ d = "inf" -> "nan"
      [] n = "zero" -> "zero"
      [] d = "inf" -> "zero"
      [] d = "zero" -> "inf"
      [] n = "inf" -> "inf"
      [] OTHER -> "pos"

\* _calculate_snr_improvement: the kind of float it returns
snr_improvement_kind(input_signal, output_signal) ==
    LET input_snr == FloatDivKind(FloatKind(Power(input_signal)),
                                  FloatKind(Variance(input_signal)))
        output_snr == FloatDivKind(FloatKind(Power(output_signal)),
                                   FloatKind(Variance(output_signal)))
    IN  FloatDivKind(output_snr, input_snr)

----------------------------------------------------------------------------
(* Quantum error correction (error_correction.py) *)

MaxReps == 5        \* largest repetition count of a RepetitionCode built directly
MaxDistance == 3    \* largest distance of a SurfaceCode built directly
MaxCycles == 2      \* run_qec_cycle calls on one engine

\* QECCode: the values of the enumeration
QECCode == {"surface_code", "repetition_code", "shor_code", "steane_code"}

\* The logical single-qubit states handed to the codes: |0>, |1>, -|0>,
\* (0.8, 0.6), (0.6, 0.8) and (|0> + |1>) / sqrt(2)
LogicalInputs ==
    { Vec(<<COne, CZero>>, 0, 1), Vec(<<CZero, COne>>, 0, 1),
      Vec(<<Cx(0 - 1, 0), CZero>>, 0, 1),
      Vec(<<Cx(4, 0), Cx(3, 0)>>, 0, 5), Vec(<<Cx(3, 0), Cx(4, 0)>>, 0, 5),
      Vec(<<COne, COne>>, 1, 1) }

\* state[k] == 1 on the exact value amp[k] / (den * sqrt(2)^sq)
EqualsOne(state, k) ==
    /\ state.amp[k].im = 0
    /\ state.amp[k].re > 0
    /\ state.amp[k].re * state.amp[k].re = state.den * state.den * Pow(2, state.sq)

\* SurfaceCode.__init__
SurfaceCode(distance) ==
    [class |-> "SurfaceCode", distance |-> distance, measurement_results |-> <<>>]

\* SurfaceCode.encode_logical_qubit: kron(state, ones(2^d) / sqrt(2^d))
SurfaceCode_encode_logical_qubit(self, state) ==
    LET m == Pow(2, self.distance)
    IN  Vec([k \in 1..(Len(state.amp) * m) |-> state.amp[((k - 1) \div m) + 1]],
            state.sq + self.distance, state.den)

\* The keys of the stabilizer dict in insertion order: X_0, Z_0, X_1, Z_1, ...
StabilizerKeys(distance) ==
    [k \in 1..(2 * (distance - 1)) |->
        [type |-> IF k % 2 = 1 THEN "X" ELSE "Z", idx |-> (k - 1) \div 2]]

\* The outcomes of the random generator over one measure_stabilizers call of
\* the surface code: one of +1 (p = 0.95), -1 (p = 0.05) per stabilizer
SurfaceDraws(distance) == [1..(2 * (distance - 1)) -> {1, 0 - 1}]

\* SurfaceCode.measure_stabilizers: the dict returned (and appended to
\* self.measurement_results); the state argument is not read
SurfaceCode_measure_stabilizers(self, state, draws) ==
    [k \in 1..(2 * (self.distance - 1)) |->
        [type |-> StabilizerKeys(self.distance)[k].type,
         idx |-> StabilizerKeys(self.distance)[k].idx,
         value |-> draws[k]]]

\* A strategy object that keeps only the stabilizer results of the last call
SurfaceCodeKeepsLast(self, stabilizer_results) ==
    [self EXCEPT !.measurement_results = <<stabilizer_results>>]

SurfaceCodeAfterMeasure(self, stabilizer_results) ==
    [self EXCEPT !.measurement_results = Append(@, stabilizer_results)]

\* A detection that records both an X entry and a Z entry for every
\* stabilizer that measured -1
SurfaceCode_detect_errors_both(stabilizer_results) ==
    LET hit == SelectSeq(stabilizer_results, LAMBDA e : e.value = 0 - 1)
    IN  [k \in 1..(2 * Len(hit)) |->
            IF k % 2 = 1 THEN <<hit[(k + 1) \div 2].idx, 0>>
            ELSE <<0, hit[k \div 2].idx>>]

\* SurfaceCode.detect_errors
SurfaceCode_detect_errors(stabilizer_results) ==
    LET hit == SelectSeq(stabilizer_results,
                         LAMBDA e : e.value = 0 - 1 /\ e.type \in {"X", "Z"})
    IN  [k \in 1..Len(hit) |->
            IF hit[k].type = "X" THEN <<hit[k].idx, 0>> ELSE <<0, hit[k].idx>>]

\* A correction that returns the state it was given
SurfaceCode_correct_errors_noop(state, errors) == state

\* SurfaceCode.correct_errors: state * (1.0 - 0.1 * len(errors))
SurfaceCode_correct_errors(state, errors) ==
    IF errors # <<>>
    THEN Vec([k \in 1..Len(state.amp) |-> CScale(10 - Len(errors), state.amp[k])],
             state.sq, state.den * 10)
    ELSE state

\* RepetitionCode.__init__
RepetitionCode(repetitions) ==
    [class |-> "RepetitionCode", repetitions |-> repetitions]

\* RepetitionCode.encode_logical_qubit
RepetitionCode_encode_logical_qubit(self, state) ==
    LET m == Pow(2, self.repetitions)
    IN  IF EqualsOne(state, 1)
        THEN Vec([k \in 1..m |-> IF k = 1 THEN COne ELSE CZero], 0, 1)
        ELSE Vec([k \in 1..m |-> IF k = m THEN COne ELSE CZero], 0, 1)

\* The outcomes of the random generator over one measure_stabilizers call of
\* the repetition code: per qubit the position drawn in the list [0, 1],
\* position 0 with p = 0.95 and position 1 with p = 0.05
RepetitionDraws(repetitions) == [1..repetitions -> {0, 1}]

\* RepetitionCode.measure_stabilizers: measurements['qubit_i'] at place i + 1;
\* the state argument is not read
RepetitionCode_measure_stabilizers(self, state, draws) ==
    [i \in 1..self.repetitions |-> <<0, 1>>[draws[i] + 1]]

\* The value of the first qubit taken as the reference value
MajorityValueFirst(qubit_values) == qubit_values[1]

\* A majority vote that resolves a tie to 1
MajorityValueTieOne(qubit_values) ==
    IF 2 * ISum(qubit_values) >= Len(qubit_values) THEN 1 ELSE 0

\* The majority value of RepetitionCode.detect_errors
MajorityValue(qubit_values) ==
    IF 2 * ISum(qubit_values) > Len(qubit_values) THEN 1 ELSE 0

\* RepetitionCode.detect_errors: the 0-based positions off the majority
RepetitionCode_detect_errors(self, measurements) ==
    LET qubit_values == [i \in 1..self.repetitions |-> measurements[i]]
        majority == MajorityValue(qubit_values)
    IN  SelectSeq([i \in 1..self.repetitions |-> i - 1],
                  LAMBDA i : qubit_values[i + 1] # majority)

\* A correction that scales the state as the surface code's does
RepetitionCode_correct_errors_scaled(state, errors) ==
    SurfaceCode_correct_errors(state, errors)

\* RepetitionCode.correct_errors returns the state it was given ...
RepetitionCode_correct_errors(state, errors) == state

\* ... and sets self.logger when there are errors
RepetitionCodeAfterCorrect(self, errors) ==
    IF errors # <<>>
    THEN [class |-> self.class, repetitions |-> self.repetitions,
          logger |-> "quantum_ops.error_correction"]
    ELSE self

\* The distance and repetition count QuantumErrorCorrection.__init__ passes
EngineDistance == 3
EngineRepetitions == 3

NoCode == [class |-> "none"]

\* A constructor that falls back to the repetition code for any other kind
QuantumErrorCorrection_fallback(code_type) ==
    IF code_type = "surface_code"
    THEN [status |-> "ok", msg |-> <<>>, code_type |-> code_type,
          code |-> SurfaceCode(EngineDistance)]
    ELSE [status |-> "ok", msg |-> <<>>, code_type |-> code_type,
          code |-> RepetitionCode(EngineRepetitions)]

\* QuantumErrorCorrection.__init__: the engine, or the error it raises
QuantumErrorCorrection(code_type) ==
    IF code_type = "surface_code"
    THEN [status |-> "ok", msg |-> <<>>, code_type |-> code_type,
          code |-> SurfaceCode(EngineDistance)]
    ELSE IF code_type = "repetition_code"
    THEN [status |-> "ok", msg |-> <<>>, code_type |-> code_type,
          code |-> RepetitionCode(EngineRepetitions)]
    ELSE [status |-> "ValueError", msg |-> <<"Unsupported code type: ", code_type>>,
          code_type |-> code_type, code |-> NoCode]

\* base_rate = 0.01 as a fraction
BaseRate == [num |-> 1, den |-> 100]

\* The base rate reported for every code kind
calculate_logical_error_rate_base(code_type) == BaseRate

\* QuantumErrorCorrection._calculate_logical_error_rate, as a fraction
calculate_logical_error_rate(code_type) ==
    IF code_type = "surface_code"
    THEN [num |-> BaseRate.num * BaseRate.num, den |-> BaseRate.den * BaseRate.den]
    ELSE IF code_type = "repetition_code"
    THEN [num |-> 3 * BaseRate.num * BaseRate.num, den |-> BaseRate.den * BaseRate.den]
    ELSE BaseRate

\* The trace of one run_qec_cycle call on the engine self with the given
\* random outcomes: the value of every intermediate, the results dict, and
\* the code object after the call
QecCycle(self, state, draws) ==
    IF self.code.class = "SurfaceCode"
    THEN LET encoded_state == SurfaceCode_encode_logical_qubit(self.code, state)
             stabilizers == SurfaceCode_measure_stabilizers(self.code, encoded_state, draws)
             errors == SurfaceCode_detect_errors(stabilizers)
             corrected_state == SurfaceCode_correct_errors(encoded_state, errors)
         IN  [state |-> state, encoded_state |-> encoded_state, draws |-> draws,
              syndrome |-> stabilizers, errors |-> errors,
              corrected_state |-> corrected_state,
              results |-> [code_type |-> self.code_type,
                           errors_detected |-> Len(errors),
                           logical_error_rate |->
                               calculate_logical_error_rate(self.code_type)],
              code_after |-> SurfaceCodeAfterMeasure(self.code, stabilizers)]
    ELSE LET encoded_state == RepetitionCode_encode_logical_qubit(self.code, state)
             measurements == RepetitionCode_measure_stabilizers(self.code, encoded_state, draws)
             errors == RepetitionCode_detect_errors(self.code, measurements)
             corrected_state == RepetitionCode_correct_errors(encoded_state, errors)
         IN  [state |-> state, encoded_state |-> encoded_state, draws |-> draws,
              syndrome |-> measurements, errors |-> errors,
              corrected_state |-> corrected_state,
              results |-> [code_type |-> self.code_type,
                           errors_detected |-> Len(errors),
                           logical_error_rate |->
                               calculate_logical_error_rate(self.code_type)],
              code_after |-> RepetitionCodeAfterCorrect(self.code, errors)]

\* The random outcomes one cycle of the engine self can draw
CycleDraws(self) ==
    IF self.code.class = "SurfaceCode"
    THEN SurfaceDraws(self.code.distance)
    ELSE RepetitionDraws(self.code.repetitions)

NoEngine == [status |-> "none", msg |-> <<>>, code_type |-> "", code |-> NoCode]

NoCycle == [state |-> Vec(<<>>, 0, 1), pc |-> "none", calls |-> <<>>]

NoQecCall == [fn |-> "none", status |-> "none"]

\* No engine constructed, no cycle run, no direct call made
NoQec == [engine |-> NoEngine, cycles |-> 0, cycle |-> NoCycle, call |-> NoQecCall]

\* No readout chain completed
NoChain == [ideal_signal |-> <<>>, signal_4k |-> <<>>, signal_mxc |-> <<>>]

----------------------------------------------------------------------------
(* The control system (signal_chain.py) and its state *)

Ret(op, status, msg, args, val) ==
    [op |-> op, status |-> status, msg |-> msg, args |-> args, val |-> val]

NoCall ==
    [fn |-> "none", gate |-> "", fidelity |-> 0, u |-> 0,
     inp |-> Vec(<<>>, 0, 1), status |-> "", msg |-> <<>>, draws |-> 0,
     out |-> Vec(<<>>, 0, 1), arg_after |-> Vec(<<>>, 0, 1),
     num |-> 0, den |-> 1]

\* CryogenicControlSystem.__init__: no qubit yet
Init ==
    /\ qubits = <<>>
    /\ objs = <<>>
    /\ recs = <<>>
    /\ returned = <<>>
    /\ xcount = <<>>
    /\ ret = Ret("init", "ok", <<>>, <<>>, 0)
    /\ gcall = NoCall
    /\ chain = NoChain
    /\ qec = NoQec

\* State-changing calls made so far
OpsDone == Len(objs) + Len(recs) + ISum(xcount)

\* An insertion at the front of the list
ListPrepend(list, x) == <<x>> \o list

\* list.append
ListAppend(list, x) == Append(list, x)

\* Python's list[i] on a list of length n: the 1-based position read, or 0
\* when the access raises IndexError
PyIndex(i, n) ==
    IF 0 <= i /\ i < n THEN i + 1
    ELSE IF i < 0 /\ i + n >= 0 THEN i + n + 1
    ELSE 0

\* The indices a caller may pass to a system of n qubits
IdxRange(n) == (0 - (n + 1))..(n + 1)

\* add_qubit: a fresh TransmonQubit, appended and returned
AddQubit(spec) ==
    /\ Len(qubits) < MaxQubits
    /\ OpsDone < MaxOps
    /\ LET h == Len(objs) + 1
       IN  /\ objs' = Append(objs, TransmonQubit(spec))
           /\ qubits' = ListAppend(qubits, h)
           /\ returned' = Append(returned, h)
           /\ xcount' = Append(xcount, 0)
           /\ ret' = Ret("add_qubit", "ok", <<>>, <<spec>>, h)
    /\ UNCHANGED <<recs, gcall, chain, qec>>

\* An X gate on a state vector that all qubit objects share
ApplyXGateShared(h) ==
    /\ OpsDone < MaxOps
    /\ objs' = [g \in 1..Len(objs) |-> [objs[g] EXCEPT !.state = XGateState(@)]]
    /\ xcount' = [xcount EXCEPT ![h] = @ + 1]
    /\ ret' = Ret("apply_x_gate", "ok", <<>>, <<h>>, 0)
    /\ UNCHANGED <<qubits, recs, returned, gcall, chain, qec>>

\* TransmonQubit.apply_x_gate on the handle h
ApplyXGate(h) ==
    /\ OpsDone < MaxOps
    /\ objs' = [objs EXCEPT ![h].state = XGateState(@)]
    /\ xcount' = [xcount EXCEPT ![h] = @ + 1]
    /\ ret' = Ret("apply_x_gate", "ok", <<>>, <<h>>, 0)
    /\ UNCHANGED <<qubits, recs, returned, gcall, chain, qec>>

\* The effect of simulate_measurement on the handle h with the shot
\* outcomes m: the new dict is stored in the qubit's history and returned.
RecsAfterMeasure(h, m) == Append(recs, MeasurementRecord(objs[h].state, m))

\* A history list shared by all qubit objects: every object sees the new record
ObjsAfterMeasureShared(h) ==
    [g \in 1..Len(objs) |->
        [objs[g] EXCEPT !.measurement_results = Append(@, Len(recs) + 1)]]

\* A measurement that leaves the measured qubit collapsed to |0>
ObjsAfterMeasureCollapsed(h) ==
    [objs EXCEPT ![h].measurement_results = Append(@, Len(recs) + 1),
                 ![h].state = <<COne, CZero>>]

ObjsAfterMeasure(h) ==
    [objs EXCEPT ![h].measurement_results = Append(@, Len(recs) + 1)]

\* TransmonQubit.simulate_measurement on the handle h
SimulateMeasurement(h, shots) ==
    /\ IF shots < 0
       THEN /\ ret' = Ret("simulate_measurement", "ValueError",
                          <<"negative dimensions are not allowed">>, <<h, shots>>, 0)
            /\ UNCHANGED <<objs, recs>>
       ELSE /\ OpsDone < MaxOps
            /\ \E m \in Binomial(P1Measured(objs[h].state), shots) :
                 /\ recs' = RecsAfterMeasure(h, m)
                 /\ objs' = ObjsAfterMeasure(h)
                 /\ ret' = Ret("simulate_measurement", "ok", <<>>, <<h, shots>>,
                               Len(recs) + 1)
    /\ UNCHANGED <<qubits, returned, xcount, gcall, chain, qec>>

\* CryogenicControlSystem.run_readout
RunReadout(qubit_index, shots) ==
    /\ LET n == Len(qubits)
           pos == PyIndex(qubit_index, n)
       IN  IF qubit_index >= n
           THEN /\ ret' = Ret("run_readout", "ValueError",
                              <<"Qubit index ", qubit_index, " out of range">>,
                              <<qubit_index, shots>>, 0)
                /\ UNCHANGED <<objs, recs, chain>>
           ELSE IF pos = 0
           THEN /\ ret' = Ret("run_readout", "IndexError",
                              <<"list index out of range">>,
                              <<qubit_index, shots>>, 0)
                /\ UNCHANGED <<objs, recs, chain>>
           ELSE LET h == qubits[pos]
                    ideal_signal == generate_readout_signal(objs[h].spec)
                IN  \E noise \in NoiseDraws :
                      LET signal_4k == process_signal(Amplifiers["4K"], ideal_signal, noise[1])
                          signal_mxc == process_signal(Amplifiers["MXC"], signal_4k, noise[2])
                      IN  IF shots < 0
                          THEN /\ ret' = Ret("run_readout", "ValueError",
                                             <<"negative dimensions are not allowed">>,
                                             <<qubit_index, shots>>, 0)
                               /\ UNCHANGED <<objs, recs, chain>>
                          ELSE /\ OpsDone < MaxOps
                               /\ \E m \in Binomial(P1Measured(objs[h].state), shots) :
                                    LET rid == Len(recs) + 1
                                        recs1 == RecsAfterMeasure(h, m)
                                        info == [k \in {"signal_power_4k", "signal_power_mxc",
                                                        "snr_improvement"} |->
                                                   CASE k = "signal_power_4k" -> Power(signal_4k)
                                                     [] k = "signal_power_mxc" -> Power(signal_mxc)
                                                     [] OTHER -> calculate_snr_improvement(
                                                                    ideal_signal, signal_mxc)]
                                    IN  /\ recs' = [recs1 EXCEPT ![rid] = DictUpdate(@, info)]
                                        /\ objs' = ObjsAfterMeasure(h)
                                        /\ ret' = Ret("run_readout", "ok", <<>>,
                                                      <<qubit_index, shots>>, rid)
                                        /\ chain' = [ideal_signal |-> ideal_signal,
                                                     signal_4k |-> signal_4k,
                                                     signal_mxc |-> signal_mxc]
    /\ UNCHANGED <<qubits, returned, xcount, gcall, qec>>

Next ==
    \/ \E spec \in QubitSpecs : AddQubit(spec)
    \/ \E h \in 1..Len(objs) : ApplyXGate(h)
    \/ \E h \in 1..Len(objs), shots \in ShotChoices : SimulateMeasurement(h, shots)
    \/ \E i \in IdxRange(Len(qubits)), shots \in ShotChoices : RunReadout(i, shots)

Spec == Init /\ [][Next]_vars

----------------------------------------------------------------------------
(* The gate-execution endpoint (quantum_api.py) *)

\* The gate requests of the model: a gate kind and a list of one or two indices
GateRequests(n) ==
    {"X", "CNOT", "CZ", "SWAP"} \X
    ({<<i>> : i \in IdxRange(n)} \cup (IdxRange(n) \X IdxRange(n)))

\* create_bell_state and calculate_concurrence of its result, per gate kind
BellStates == [g \in GateKinds |-> create_bell_state(g)]

Concurrences == [g \in GateKinds |-> calculate_concurrence(BellStates[g].state)]

\* execute_gate.  Every HTTPException raised inside the handler's try block,
\* and every other exception, is caught by its except clause and raised again
\* with status 500.
ExecuteGate(gate_type, request_qubits) ==
    /\ LET n == Len(qubits)
           args == <<gate_type, request_qubits>>
       IN  IF gate_type = "X" /\ Len(request_qubits) = 1
           THEN LET qubit_index == request_qubits[1]
                    pos == PyIndex(qubit_index, n)
                IN  IF qubit_index >= n
                    THEN /\ ret' = Ret("execute_gate", "HTTP500",
                                       <<"Qubit index out of range">>, args, 0)
                         /\ UNCHANGED <<objs, xcount>>
                    ELSE IF pos = 0
                    THEN /\ ret' = Ret("execute_gate", "HTTP500",
                                       <<"list index out of range">>, args, 0)
                         /\ UNCHANGED <<objs, xcount>>
                    ELSE /\ OpsDone < MaxOps
                         /\ objs' = [objs EXCEPT ![qubits[pos]].state = XGateState(@)]
                         /\ xcount' = [xcount EXCEPT ![qubits[pos]] = @ + 1]
                         /\ ret' = Ret("execute_gate", "success", <<"X_gate">>, args, 0)
           ELSE IF gate_type \in {"CNOT", "CZ"} /\ Len(request_qubits) = 2
           THEN LET entangled_state == BellStates[gate_type].state
                    concurrence == Concurrences[gate_type]
                IN  /\ ret' = Ret("execute_gate", "success", <<gate_type, "_gate">>, args,
                                  [num |-> concurrence.num, den |-> concurrence.den])
                    /\ UNCHANGED <<objs, xcount>>
           ELSE /\ ret' = Ret("execute_gate", "HTTP500",
                              <<"Unsupported gate operation">>, args, 0)
                /\ UNCHANGED <<objs, xcount>>
    /\ UNCHANGED <<qubits, recs, returned, gcall, chain, qec>>

NextApi ==
    \/ \E spec \in QubitSpecs : AddQubit(spec)
    \/ \E r \in GateRequests(Len(qubits)) : ExecuteGate(r[1], r[2])

SpecApi == Init /\ [][NextApi]_vars

----------------------------------------------------------------------------
(* Calls of the pure gate and entanglement functions *)

\* Amplitude numerators of the input vectors
Amps ==
    {Cx(r, i) : r \in (0 - MaxAmp)..MaxAmp, i \in (0 - MaxAmp)..MaxAmp}

SmallAmps == {a \in Amps : a.re * a.re + a.im * a.im <= MaxAmp * MaxAmp}

\* Input vectors of calculate_concurrence: every 4-vector over SmallAmps at
\* every scale, and constant vectors of the other lengths.
ConcurrenceInputs ==
    {Vec(<<a, b, c, d>>, sq, 1) :
        a \in SmallAmps, b \in SmallAmps, c \in SmallAmps, d \in SmallAmps,
        sq \in 0..MaxSq}
    \cup {Vec([k \in 1..len |-> a], 0, 1) :
            len \in (0..MaxLen) \ {4}, a \in SmallAmps}

\* Input state vectors of apply_to_state: the basis states and the states
\* create_bell_state builds.
Basis4(k) == Vec([j \in 1..4 |-> IF j = k THEN COne ELSE CZero], 0, 1)

GateInputs ==
    {Basis4(k) : k \in 1..4} \cup {create_bell_state(g).state : g \in GateKinds}
    \cup {Vec(<<Cx(1, 0), Cx(0, 1), Cx(-1, 0), Cx(0, -1)>>, 2, 1)}

\* spec.fidelity and the uniform draw, in percent
Fidelities == {0, 98, 100}
UniformDraws == {0, 98, 99}

\* A call about to be made: the function and its arguments
Pending(fn, gate_type, fidelity, u, state) ==
    [NoCall EXCEPT !.fn = fn, !.gate = gate_type, !.fidelity = fidelity,
                   !.u = u, !.inp = state, !.status = "pending"]

PendingCalls ==
    {Pending("create_bell_state", g, 0, 0, Vec(<<>>, 0, 1)) : g \in GateKinds}
    \cup {Pending("verify_bell", g, 0, 0, Vec(<<>>, 0, 1)) : g \in GateKinds}
    \cup {Pending("calculate_concurrence", "", 0, 0, s) : s \in ConcurrenceInputs}
    \cup {Pending("apply_to_state", g, f, u, s) :
            g \in GateKinds, f \in Fidelities, u \in UniformDraws, s \in GateInputs}

InitGate ==
    /\ qubits = <<>>
    /\ objs = <<>>
    /\ recs = <<>>
    /\ returned = <<>>
    /\ xcount = <<>>
    /\ ret = Ret("init", "ok", <<>>, <<>>, 0)
    /\ gcall \in PendingCalls
    /\ chain = NoChain
    /\ qec = NoQec

CallCreateBellState ==
    /\ gcall.status = "pending"
    /\ gcall.fn = "create_bell_state"
    /\ LET r == create_bell_state(gcall.gate)
       IN  gcall' = [gcall EXCEPT !.status = r.status, !.out = r.state]
    /\ UNCHANGED <<qubits, objs, recs, returned, xcount, ret, chain, qec>>

CallCalculateConcurrence ==
    /\ gcall.status = "pending"
    /\ gcall.fn = "calculate_concurrence"
    /\ LET r == calculate_concurrence(gcall.inp)
       IN  gcall' = [gcall EXCEPT !.status = r.status, !.msg = <<r.msg>>,
                                  !.num = r.num, !.den = r.den]
    /\ UNCHANGED <<qubits, objs, recs, returned, xcount, ret, chain, qec>>

\* create_bell_state followed by calculate_concurrence of its result
\* (fix_entanglement.py, the module's own example)
CallVerifyBell ==
    /\ gcall.status = "pending"
    /\ gcall.fn = "verify_bell"
    /\ LET bell_state == create_bell_state(gcall.gate).state
           r == calculate_concurrence(bell_state)
       IN  gcall' = [gcall EXCEPT !.status = r.status, !.out = bell_state,
                                  !.num = r.num, !.den = r.den]
    /\ UNCHANGED <<qubits, objs, recs, returned, xcount, ret, chain, qec>>

CallApplyToState ==
    /\ gcall.status = "pending"
    /\ gcall.fn = "apply_to_state"
    /\ \E noise \in (IF gcall.u > gcall.fidelity THEN NoiseMatrices ELSE {ZeroNoise}) :
         LET r == apply_to_state(gcall.gate, gcall.fidelity, gcall.inp, gcall.u, noise)
         IN  gcall' = [gcall EXCEPT !.status = r.status, !.msg = r.msg,
                                    !.draws = r.draws, !.out = r.out,
                                    !.arg_after = r.arg_after]
    /\ UNCHANGED <<qubits, objs, recs, returned, xcount, ret, chain, qec>>

NextGate ==
    \/ CallCreateBellState
    \/ CallCalculateConcurrence
    \/ CallVerifyBell
    \/ CallApplyToState

SpecGate == InitGate /\ [][NextGate]_vars

----------------------------------------------------------------------------
(* The QEC engine and direct calls of the code strategies *)

\* A call of a code strategy method that has not returned yet
PendingQec(fn, self, state, measurements, stabilizer_results) ==
    [fn |-> fn, status |-> "pending", self |-> self, state |-> state,
     measurements |-> measurements, stabilizer_results |-> stabilizer_results]

\* The direct calls of the model: detect_errors of a repetition code over
\* every syndrome, encode_logical_qubit of a repetition code over the logical
\* inputs, detect_errors of a surface code over every stabilizer outcome
PendingQecCalls ==
    UNION {
      { PendingQec("RepetitionCode.detect_errors", RepetitionCode(r),
                   Vec(<<>>, 0, 1), m, <<>>) :
            m \in [1..r -> {0, 1}] } : r \in 1..MaxReps }
    \cup
    { PendingQec("RepetitionCode.encode_logical_qubit", RepetitionCode(r),
                 state, <<>>, <<>>) :
          r \in 1..MaxReps, state \in LogicalInputs }
    \cup
    UNION {
      { PendingQec("SurfaceCode.detect_errors", SurfaceCode(d), Vec(<<>>, 0, 1), <<>>,
                   SurfaceCode_measure_stabilizers(SurfaceCode(d), Vec(<<>>, 0, 1), draws)) :
            draws \in SurfaceDraws(d) } : d \in 1..MaxDistance }

\* Either the engine is about to be constructed or one direct call is pending
InitQec ==
    /\ qubits = <<>>
    /\ objs = <<>>
    /\ recs = <<>>
    /\ returned = <<>>
    /\ xcount = <<>>
    /\ ret = Ret("init", "ok", <<>>, <<>>, 0)
    /\ gcall = NoCall
    /\ chain = NoChain
    /\ qec \in {NoQec} \cup {[NoQec EXCEPT !.call = c] : c \in PendingQecCalls}

\* QuantumErrorCorrection(code_type)
ConstructEngine(code_type) ==
    /\ qec.engine.status = "none"
    /\ qec.call.status = "none"
    /\ qec' = [qec EXCEPT !.engine = QuantumErrorCorrection(code_type)]
    /\ UNCHANGED <<qubits, objs, recs, returned, xcount, ret, gcall, chain>>

\* QuantumErrorCorrection.run_qec_cycle
RunQecCycle(state) ==
    /\ qec.engine.status = "ok"
    /\ qec.cycles < MaxCycles
    /\ \E draws \in CycleDraws(qec.engine) :
         LET t == QecCycle(qec.engine, state, draws)
         IN  qec' = [qec EXCEPT !.engine.code = t.code_after,
                                !.cycles = @ + 1,
                                !.cycle = t]
    /\ UNCHANGED <<qubits, objs, recs, returned, xcount, ret, gcall, chain>>

\* The pending direct call returns out
QecCallReturns(fn, out) ==
    /\ qec.call.status = "pending"
    /\ qec.call.fn = fn
    /\ qec' = [qec EXCEPT !.call =
                 [fn |-> fn, status |-> "done", self |-> qec.call.self,
                  state |-> qec.call.state,
                  measurements |-> qec.call.measurements,
                  stabilizer_results |-> qec.call.stabilizer_results,
                  out |-> out]]
    /\ UNCHANGED <<qubits, objs, recs, returned, xcount, ret, gcall, chain>>

CallRepetitionDetect ==
    QecCallReturns("RepetitionCode.detect_errors",
                   RepetitionCode_detect_errors(qec.call.self, qec.call.measurements))

CallRepetitionEncode ==
    QecCallReturns("RepetitionCode.encode_logical_qubit",
                   RepetitionCode_encode_logical_qubit(qec.call.self, qec.call.state))

CallSurfaceDetect ==
    QecCallReturns("SurfaceCode.detect_errors",
                   SurfaceCode_detect_errors(qec.call.stabilizer_results))

NextQec ==
    \/ \E code_type \in QECCode : ConstructEngine(code_type)
    \/ \E state \in LogicalInputs : RunQecCycle(state)
    \/ CallRepetitionDetect
    \/ CallRepetitionEncode
    \/ CallSurfaceDetect

SpecQec == InitQec /\ [][NextQec]_vars

----------------------------------------------------------------------------
(* run_qec_cycle statement by statement *)

\* A method call made by run_qec_cycle: its arguments and what it returned
StepCall(step, args, out) == [step |-> step, args |-> args, out |-> out]

\* Line 146: encoded_state = self.code.encode_logical_qubit(state)
QecEncode(state) ==
    /\ qec.engine.status = "ok"
    /\ qec.cycle.pc \in {"none", "Report"}
    /\ qec.cycles < MaxCycles
    /\ LET encoded_state ==
               IF qec.engine.code.class = "SurfaceCode"
               THEN SurfaceCode_encode_logical_qubit(qec.engine.code, state)
               ELSE RepetitionCode_encode_logical_qubit(qec.engine.code, state)
       IN  qec' = [qec EXCEPT !.cycle =
                     [pc |-> "Encode", state |-> state,
                      encoded_state |-> encoded_state,
                      calls |-> <<StepCall("Encode", <<state>>, encoded_state)>>]]
    /\ UNCHANGED <<qubits, objs, recs, returned, xcount, ret, gcall, chain>>

\* Lines 150 / 156: self.code.measure_stabilizers(encoded_state)
QecMeasureSyndrome ==
    /\ qec.cycle.pc = "Encode"
    /\ \E draws \in CycleDraws(qec.engine) :
         LET arg == qec.cycle.encoded_state
             syndrome ==
               IF qec.engine.code.class = "SurfaceCode"
               THEN SurfaceCode_measure_stabilizers(qec.engine.code, arg, draws)
               ELSE RepetitionCode_measure_stabilizers(qec.engine.code, arg, draws)
         IN  qec' = [qec EXCEPT
                       !.engine.code =
                           IF @.class = "SurfaceCode"
                           THEN SurfaceCodeAfterMeasure(@, syndrome) ELSE @,
                       !.cycle =
                           [pc |-> "MeasureSyndrome", state |-> @.state,
                            encoded_state |-> @.encoded_state, draws |-> draws,
                            syndrome |-> syndrome,
                            calls |-> Append(@.calls,
                                StepCall("MeasureSyndrome", <<arg>>, syndrome))]]
    /\ UNCHANGED <<qubits, objs, recs, returned, xcount, ret, gcall, chain>>

\* Lines 151 / 157: errors = self.code.detect_errors(...)
QecDetectErrors ==
    /\ qec.cycle.pc = "MeasureSyndrome"
    /\ LET arg == qec.cycle.syndrome
           errors ==
               IF qec.engine.code.class = "SurfaceCode"
               THEN SurfaceCode_detect_errors(arg)
               ELSE RepetitionCode_detect_errors(qec.engine.code, arg)
       IN  qec' = [qec EXCEPT !.cycle =
                     [pc |-> "DetectErrors", state |-> @.state,
                      encoded_state |-> @.encoded_state, draws |-> @.draws,
                      syndrome |-> @.syndrome, errors |-> errors,
                      calls |-> Append(@.calls,
                          StepCall("DetectErrors", <<arg>>, errors))]]
    /\ UNCHANGED <<qubits, objs, recs, returned, xcount, ret, gcall, chain>>

\* A correction step that is handed the logical input state instead of the
\* encoded state
QecCorrectOnInput ==
    /\ qec.cycle.pc = "DetectErrors"
    /\ LET arg == qec.cycle.state
           errors == qec.cycle.errors
           corrected_state ==
               IF qec.engine.code.class = "SurfaceCode"
               THEN SurfaceCode_correct_errors(arg, errors)
               ELSE RepetitionCode_correct_errors(arg, errors)
       IN  qec' = [qec EXCEPT
                     !.cycle =
                         [pc |-> "Correct", state |-> @.state,
                          encoded_state |-> @.encoded_state, draws |-> @.draws,
                          syndrome |-> @.syndrome, errors |-> @.errors,
                          corrected_state |-> corrected_state,
                          calls |-> Append(@.calls,
                              StepCall("Correct", <<arg, errors>>, corrected_state))]]
    /\ UNCHANGED <<qubits, objs, recs, returned, xcount, ret, gcall, chain>>

\* Lines 152 / 158: corrected_state = self.code.correct_errors(encoded_state, errors)
QecCorrect ==
    /\ qec.cycle.pc = "DetectErrors"
    /\ LET arg == qec.cycle.encoded_state
           errors == qec.cycle.errors
           corrected_state ==
               IF qec.engine.code.class = "SurfaceCode"
               THEN SurfaceCode_correct_errors(arg, errors)
               ELSE RepetitionCode_correct_errors(arg, errors)
       IN  qec' = [qec EXCEPT
                     !.engine.code =
                         IF @.class = "SurfaceCode"
                         THEN @ ELSE RepetitionCodeAfterCorrect(@, errors),
                     !.cycle =
                         [pc |-> "Correct", state |-> @.state,
                          encoded_state |-> @.encoded_state, draws |-> @.draws,
                          syndrome |-> @.syndrome, errors |-> @.errors,
                          corrected_state |-> corrected_state,
                          calls |-> Append(@.calls,
                              StepCall("Correct", <<arg, errors>>, corrected_state))]]
    /\ UNCHANGED <<qubits, objs, recs, returned, xcount, ret, gcall, chain>>

\* Lines 153 / 159 to 167: the results dict is built and returned
QecReport ==
    /\ qec.cycle.pc = "Correct"
    /\ LET results ==
               [code_type |-> qec.engine.code_type,
                errors_detected |-> Len(qec.cycle.errors),
                logical_error_rate |-> calculate_logical_error_rate(qec.engine.code_type)]
       IN  qec' = [qec EXCEPT
                     !.cycles = @ + 1,
                     !.cycle =
                         [pc |-> "Report", state |-> @.state,
                          encoded_state |-> @.encoded_state, draws |-> @.draws,
                          syndrome |-> @.syndrome, errors |-> @.errors,
                          corrected_state |-> @.corrected_state,
                          results |-> results,
                          calls |-> Append(@.calls,
                              StepCall("Report", <<>>,
                                       <<@.corrected_state, results>>))]]
    /\ UNCHANGED <<qubits, objs, recs, returned, xcount, ret, gcall, chain>>

NextQecSteps ==
    \/ \E code_type \in QECCode : ConstructEngine(code_type)
    \/ \E state \in LogicalInputs : QecEncode(state)
    \/ QecMeasureSyndrome
    \/ QecDetectErrors
    \/ QecCorrect
    \/ QecReport

SpecQecSteps == Init /\ [][NextQecSteps]_vars

----------------------------------------------------------------------------
(* Properties *)

\* The exact value 1/sqrt(2) * (1, 0, 0, 1)
IsCanonicalBell(v) ==
    /\ Len(v.amp) = 4
    /\ v.amp[2] = CZero
    /\ v.amp[3] = CZero
    /\ v.amp[1] = v.amp[4]
    /\ v.amp[1].im = 0
    /\ v.amp[1].re > 0
    /\ 2 * v.amp[1].re * v.amp[1].re = v.den * v.den * Pow(2, v.sq)

GateCallDone(fn) == gcall.fn = fn /\ gcall.status # "pending"

\* The request of an execute_gate result names an index outside 0..n-1
NamesBadIndex(r, n) ==
    \E k \in 1..Len(r.args[2]) : r.args[2][k] < 0 \/ r.args[2][k] >= n

\* C1 (as claimed): the concurrence of create_bell_state('CZ') is 1.
C1_CzBellConcurrenceIsOne ==
    (GateCallDone("verify_bell") /\ gcall.gate = "CZ") =>
        (gcall.status = "ok" /\ gcall.num = gcall.den)

\* C2 (as claimed): run_readout with an index outside 0..n-1, negative or
\* too large, fails with an out-of-range error and stores no record.
C2_OutOfRangeReadoutFails ==
    [][(ret'.op = "run_readout"
        /\ (ret'.args[1] < 0 \/ ret'.args[1] >= Len(qubits)))
       => (ret'.status \in {"ValueError", "IndexError"}
           /\ recs' = recs /\ objs' = objs)]_vars

\* C3 (as claimed): create_bell_state fails for a gate kind other than CNOT
\* and CZ and returns no state vector.
C3_InvalidGateKindRejected ==
    (GateCallDone("create_bell_state") /\ gcall.gate \notin {"CNOT", "CZ"}) =>
        (gcall.status # "ok" /\ gcall.out.amp = <<>>)

\* C4 (as claimed): an X, CNOT or CZ gate request naming an index outside
\* 0..n-1 is rejected and changes no qubit's state.
C4_OutOfRangeGateRejected ==
    [][(ret'.op = "execute_gate"
        /\ \/ ret'.args[1] = "X" /\ Len(ret'.args[2]) = 1
           \/ ret'.args[1] \in {"CNOT", "CZ"} /\ Len(ret'.args[2]) = 2
        /\ NamesBadIndex(ret', Len(qubits)))
       => (ret'.status = "HTTP500" /\ objs' = objs)]_vars

\* C5: create_bell_state('CNOT') is exactly (1,0,0,1)/sqrt(2), and its
\* concurrence is exactly 1.
C5_CnotBellState ==
    /\ (GateCallDone("create_bell_state") /\ gcall.gate = "CNOT") =>
          (gcall.status = "ok" /\ IsCanonicalBell(gcall.out))
    /\ (GateCallDone("verify_bell") /\ gcall.gate = "CNOT") =>
          (gcall.status = "ok" /\ IsCanonicalBell(gcall.out)
           /\ gcall.num = gcall.den)

C5_Witness == GateCallDone("verify_bell") /\ gcall.gate = "CNOT" /\ gcall.num > 0

\* C6: the record a successful simulate_measurement or run_readout returns
\* has non-negative counts that add up to the shots asked for.
C6_ShotConservation ==
    (ret.op \in {"simulate_measurement", "run_readout"} /\ ret.status = "ok") =>
        /\ ret.args[2] >= 0
        /\ recs[ret.val]["0"] >= 0
        /\ recs[ret.val]["1"] >= 0
        /\ recs[ret.val]["0"] + recs[ret.val]["1"] = ret.args[2]

C6_Witness ==
    /\ ret.op = "run_readout"
    /\ ret.status = "ok"
    /\ ret.args[2] = 2
    /\ recs[ret.val]["0"] = 1
    /\ recs[ret.val]["1"] = 1

\* C7: every qubit is exactly |k mod 2> after k apply_x_gate calls (|0> when
\* fresh), so its squared magnitudes always add up to 1.
C7_XGateExact ==
    \A h \in 1..Len(objs) :
        /\ objs[h].state = (IF xcount[h] % 2 = 0 THEN <<COne, CZero>>
                                                 ELSE <<CZero, COne>>)
        /\ Norm2(objs[h].state) = 1

C7_Witness == \E h \in 1..Len(objs) : xcount[h] = 2

\* C8: the qubit collection is the list of the handles add_qubit returned,
\* in call order and without repetition, and add_qubit returns the new last
\* element.
C8_QubitsAreReturnedHandles ==
    /\ qubits = returned
    /\ \A i, j \in 1..Len(qubits) : qubits[i] = qubits[j] => i = j
    /\ ret.op = "add_qubit" =>
          (ret.status = "ok" /\ ret.val = qubits[Len(qubits)])

C8_Witness ==
    /\ Len(qubits) = 2
    /\ ret.op = "run_readout"
    /\ ret.status = "ok"

\* C9: apply_to_state with a kind other than CNOT and CZ fails with an error
\* naming the kind, before any random draw, and leaves its argument as it was.
C9_UnsupportedGateRejected ==
    (GateCallDone("apply_to_state") /\ gcall.gate \notin {"CNOT", "CZ"}) =>
        /\ gcall.status = "ValueError"
        /\ gcall.msg = <<"Unsupported gate type: ", gcall.gate>>
        /\ gcall.draws = 0
        /\ gcall.out.amp = <<>>
        /\ gcall.arg_after = gcall.inp

C9_Witness ==
    GateCallDone("apply_to_state") /\ gcall.gate = "SWAP" /\ gcall.status = "ValueError"

\* C10 (as claimed): calculate_concurrence of any vector of 4 amplitudes is in
\* [0,1], and any other length is rejected.
C10_ConcurrenceInUnitIntervalAnyVector ==
    GateCallDone("calculate_concurrence") =>
        IF Len(gcall.inp.amp) = 4
        THEN gcall.status = "ok" /\ 0 <= gcall.num /\ gcall.num <= gcall.den
        ELSE gcall.status = "ValueError"

\* sum of squared magnitudes at most 1
NormAtMostOne(v) == Norm2(v.amp) <= v.den * v.den * Pow(2, v.sq)

\* C10 (amended): calculate_concurrence of a vector of 4 amplitudes whose
\* squared magnitudes add up to at most 1 is in [0,1]; any other length is
\* rejected with a ValueError and yields no value.
C10_ConcurrenceInUnitIntervalNormalised ==
    GateCallDone("calculate_concurrence") =>
        IF Len(gcall.inp.amp) = 4
        THEN /\ gcall.status = "ok"
             /\ 0 <= gcall.num
             /\ NormAtMostOne(gcall.inp) => gcall.num <= gcall.den
        ELSE gcall.status = "ValueError"

C10_Witness ==
    /\ GateCallDone("calculate_concurrence")
    /\ Len(gcall.inp.amp) = 4
    /\ NormAtMostOne(gcall.inp)
    /\ gcall.num = gcall.den

\* A direct call of the code strategy method fn has returned
QecCallDone(fn) == qec.call.fn = fn /\ qec.call.status = "done"

\* out lists, in increasing order and once each, exactly the 0-based positions
\* of m whose value is not the value held by more than half of the r positions
OffMajorityPositions(m, r, out) ==
    LET maj == CHOOSE v \in {0, 1} : 2 * Cardinality({i \in 1..r : m[i] = v}) > r
    IN  /\ \A k \in 1..Len(out) : out[k] \in 0..(r - 1) /\ m[out[k] + 1] # maj
        /\ \A i \in 0..(r - 1) : m[i + 1] # maj => \E k \in 1..Len(out) : out[k] = i
        /\ \A j, k \in 1..Len(out) : j < k => out[j] < out[k]
        /\ (\A i, j \in 1..r : m[i] = m[j]) => out = <<>>

\* C11: for every syndrome over an odd number r of positions,
\* RepetitionCode.detect_errors returns exactly the positions whose value
\* differs from the majority value, in increasing index order, and the empty
\* list when all positions agree; so does the detect step of every cycle of the
\* repetition engine (r = 3).
C11_DetectErrorsOffMajority ==
    /\ (QecCallDone("RepetitionCode.detect_errors") /\ qec.call.self.repetitions % 2 = 1) =>
           OffMajorityPositions(qec.call.measurements, qec.call.self.repetitions,
                                qec.call.out)
    /\ (qec.cycles > 0 /\ qec.engine.code.class = "RepetitionCode") =>
           OffMajorityPositions(qec.cycle.syndrome, qec.engine.code.repetitions,
                                qec.cycle.errors)

\* C11 witness: a 5-position syndrome with two minority positions, the second
\* and the last, has been examined.
C11_Witness ==
    /\ QecCallDone("RepetitionCode.detect_errors")
    /\ qec.call.self.repetitions = 5
    /\ qec.call.measurements = <<1, 0, 1, 1, 0>>
    /\ qec.call.out = <<1, 4>>

\* A cycle of the engine has completed with the given strategy class
CycleDone(class) == qec.cycles > 0 /\ qec.engine.code.class = class

\* C12: in every QEC cycle errors_detected is a non-negative integer, at most
\* r for the repetition strategy (r = 3) and at most 2 * (distance - 1) for
\* the surface strategy (4 at distance 3), whatever the sampled syndrome.
C12_ErrorsDetectedBounded ==
    /\ CycleDone("RepetitionCode") =>
          /\ qec.cycle.results.errors_detected \in 0..qec.engine.code.repetitions
          /\ qec.engine.code.repetitions = 3
    /\ CycleDone("SurfaceCode") =>
          /\ qec.cycle.results.errors_detected \in 0..(2 * (qec.engine.code.distance - 1))
          /\ qec.engine.code.distance = 3

\* C12 witness: a surface cycle in which all four stabilizers measured -1
\* reported four errors.
C12_Witness ==
    /\ CycleDone("SurfaceCode")
    /\ \A k \in 1..4 : qec.cycle.syndrome[k].value = 0 - 1
    /\ qec.cycle.results.errors_detected = 4

\* The last call was a run_readout that returned a result
ReadoutDone == ret.op = "run_readout" /\ ret.status = "ok"

\* The ideal tone and the final chained signal of the last readout both have
\* non-zero variance
NonDegenerateChain ==
    /\ Variance(chain.ideal_signal) # 0
    /\ Variance(chain.signal_mxc) # 0

\* C13: for every run_readout in which the ideal readout tone and the final
\* chained signal both have non-zero variance, the reported snr_improvement
\* is strictly greater than 0.
C13_SnrImprovementPositive ==
    (ReadoutDone /\ NonDegenerateChain) =>
        /\ recs[ret.val]["snr_improvement"].num > 0
        /\ recs[ret.val]["snr_improvement"].den > 0

\* C13 witness: a readout of a qubit with a non-zero readout amplitude
\* returned a positive SNR improvement.
C13_Witness ==
    /\ ReadoutDone
    /\ NonDegenerateChain
    /\ chain.ideal_signal = generate_readout_signal([readout_frequency |-> 1,
                                                     readout_amplitude |-> 1])
    /\ recs[ret.val]["snr_improvement"].num > 0
    /\ recs[ret.val]["snr_improvement"].den > 0

\* The fraction f equals k * p^2 with p = 0.01
IsTimesPSquared(f, k) == f.num * 10000 = k * f.den

\* C14: the report of run_qec_cycle contains the configured code kind,
\* errors_detected equal to the number of errors the detect step of that same
\* cycle returned, and a logical error rate of 3 * p^2 (repetition) or p^2
\* (surface) with p = 0.01, whatever the input state and the sampled syndrome.
C14_ReportFields ==
    qec.cycles > 0 =>
        /\ DOMAIN qec.cycle.results = {"code_type", "errors_detected", "logical_error_rate"}
        /\ qec.cycle.results.code_type = qec.engine.code_type
        /\ qec.cycle.results.errors_detected = Len(qec.cycle.errors)
        /\ qec.engine.code.class = "RepetitionCode" =>
              /\ qec.engine.code_type = "repetition_code"
              /\ qec.cycle.errors =
                    RepetitionCode_detect_errors(qec.engine.code, qec.cycle.syndrome)
              /\ IsTimesPSquared(qec.cycle.results.logical_error_rate, 3)
        /\ qec.engine.code.class = "SurfaceCode" =>
              /\ qec.engine.code_type = "surface_code"
              /\ qec.cycle.errors = SurfaceCode_detect_errors(qec.cycle.syndrome)
              /\ IsTimesPSquared(qec.cycle.results.logical_error_rate, 1)

\* C14 witness: a repetition cycle on the input (0.8, 0.6) whose syndrome had
\* one minority position reported one error and the rate 3 * p^2.
C14_Witness ==
    /\ CycleDone("RepetitionCode")
    /\ qec.cycle.state = Vec(<<Cx(4, 0), Cx(3, 0)>>, 0, 5)
    /\ qec.cycle.syndrome = <<0, 1, 0>>
    /\ qec.cycle.results.errors_detected = 1
    /\ IsTimesPSquared(qec.cycle.results.logical_error_rate, 3)

\* C15: constructing the QEC engine with a code kind other than repetition or
\* surface (shor_code, steane_code) fails with an unsupported-code error, so
\* no engine able to run a cycle exists for such a kind.
C15_UnsupportedKindRejected ==
    (qec.engine.status # "none"
        /\ qec.engine.code_type \notin {"repetition_code", "surface_code"}) =>
        /\ qec.engine.status = "ValueError"
        /\ qec.engine.msg = <<"Unsupported code type: ", qec.engine.code_type>>
        /\ qec.engine.code = NoCode
        /\ qec.cycles = 0
        /\ \A state \in LogicalInputs : ~ENABLED RunQecCycle(state)

\* C15 witness: the construction with shor_code has failed.
C15_Witness ==
    /\ qec.engine.code_type = "shor_code"
    /\ qec.engine.status = "ValueError"

\* v is the basis vector of length n with its 1 at position pos
IsBasisVector(v, n, pos) ==
    /\ Len(v.amp) = n
    /\ v.sq = 0
    /\ v.den = 1
    /\ \A k \in 1..n : v.amp[k] = IF k = pos THEN COne ELSE CZero

\* C16 (as claimed): RepetitionCode.encode_logical_qubit with r repetitions
\* returns a basis vector of length 2^r, with its 1 at the first position for
\* every input whose amplitude favors 0 (|a0| > |a1|) and at the last position
\* for every input that favors 1.
C16_EncodeFollowsFavoredAmplitude ==
    QecCallDone("RepetitionCode.encode_logical_qubit") =>
        LET n == Pow(2, qec.call.self.repetitions)
            a0 == CAbs2(qec.call.state.amp[1])
            a1 == CAbs2(qec.call.state.amp[2])
        IN  /\ a0 > a1 => IsBasisVector(qec.call.out, n, 1)
            /\ a1 > a0 => IsBasisVector(qec.call.out, n, n)

\* The bit a repetition encoding stands for: 1 when its last position holds
\* the 1, else 0
EncodedBit(encoded_state) ==
    IF encoded_state.amp[Len(encoded_state.amp)] = COne THEN 1 ELSE 0

\* C17 (as claimed): in the repetition strategy each of the r syndrome samples
\* reports the true encoded bit value unless that sample is a flip (the
\* outcome of probability 0.05), so a logical-1 encoding without flips yields
\* r ones and a logical-0 encoding without flips r zeros.
C17_SyndromeReportsEncodedBit ==
    CycleDone("RepetitionCode") =>
        \A i \in 1..qec.engine.code.repetitions :
            qec.cycle.syndrome[i] =
                (EncodedBit(qec.cycle.encoded_state) + qec.cycle.draws[i]) % 2

\* errors has exactly one entry per stabilizer of stabilizer_results that
\* measured -1, and no two entries are the same
OneDistinctEntryPerViolation(stabilizer_results, errors) ==
    /\ Len(errors) = Cardinality({k \in 1..Len(stabilizer_results) :
                                    stabilizer_results[k].value = 0 - 1})
    /\ \A j, k \in 1..Len(errors) : j # k => errors[j] # errors[k]

\* C18 (as claimed): SurfaceCode.detect_errors returns exactly one entry per
\* stabilizer that measured -1 and none for one that measured +1, and each
\* entry identifies the index and the type (X or Z) of its stabilizer, so two
\* different violated stabilizers never produce the same entry.
C18_EntriesIdentifyStabilizers ==
    /\ QecCallDone("SurfaceCode.detect_errors") =>
          OneDistinctEntryPerViolation(qec.call.stabilizer_results, qec.call.out)
    /\ CycleDone("SurfaceCode") =>
          OneDistinctEntryPerViolation(qec.cycle.syndrome, qec.cycle.errors)

\* This step is a run_qec_cycle call
IsCycleStep == qec'.cycles = qec.cycles + 1

CreationKeys == {"0", "1", "readout_fidelity", "true_probability"}

\* C20 (as claimed): a measurement record is never mutated after creation:
\* every record stored in a qubit's measurement history keeps exactly the keys
\* it was created with ('0', '1', 'readout_fidelity', 'true_probability'),
\* also after run_readout merged signal powers and SNR improvement into the
\* result it returns.
C20_HistoryRecordsKeepCreationKeys ==
    \A h \in 1..Len(objs) :
        \A k \in 1..Len(objs[h].measurement_results) :
            DOMAIN recs[objs[h].measurement_results[k]] = CreationKeys

\* This step is a simulate_measurement or run_readout call
IsReadoutStep == ret'.op \in {"simulate_measurement", "run_readout"}

\* The handle a readout call with the outcome r measured in the system before
\* the call
MeasuredHandle(r) ==
    IF r.op = "simulate_measurement" THEN r.args[1]
    ELSE qubits[PyIndex(r.args[1], Len(qubits))]

\* C21 (as claimed): readout simulation is read-only on shared state: after
\* simulate_measurement or run_readout returns, every field of the measured
\* qubit (amplitudes, spec, temperature, stored history) and of the control
\* system (qubit collection) has the same value as before the call.
C21_ReadoutReadOnly ==
    [][IsReadoutStep => (qubits' = qubits /\ objs' = objs)]_vars

\* C21 (amended): a readout call leaves the qubit collection and every
\* qubit's amplitudes, spec and temperature unchanged, and every record
\* created before it; a call that returns a result appends that one record to
\* the history of the measured qubit and to no other history, and a call that
\* fails changes no history.
C21_ReadoutAppendsOneRecord ==
    [][IsReadoutStep =>
        /\ qubits' = qubits
        /\ Len(objs') = Len(objs)
        /\ \A r \in 1..Len(recs) : recs'[r] = recs[r]
        /\ \A h \in 1..Len(objs) :
              /\ objs'[h].state = objs[h].state
              /\ objs'[h].spec = objs[h].spec
              /\ objs'[h].temperature = objs[h].temperature
              /\ objs'[h].measurement_results =
                    IF ret'.status = "ok" /\ h = MeasuredHandle(ret')
                    THEN Append(objs[h].measurement_results, ret'.val)
                    ELSE objs[h].measurement_results
      ]_vars

\* C21 witness: a run_readout has returned a result for a qubit in a system
\* of two qubits, and that result is the only record of the qubit's history.
C21_Witness ==
    /\ ret.op = "run_readout"
    /\ ret.status = "ok"
    /\ Len(objs) = 2
    /\ \E h \in 1..2 : objs[h].measurement_results = <<ret.val>>

\* The steps of a cycle in the order the spec gives them
StepOrder == <<"Encode", "MeasureSyndrome", "DetectErrors", "Correct", "Report">>

\* C22: every run_qec_cycle, for both strategies, performs Encode,
\* MeasureSyndrome, DetectErrors, Correct, Report in exactly that order, each
\* exactly once: the syndrome is measured on the encoded state, detection runs
\* on that syndrome, correction runs on the encoded state with exactly the
\* detected errors, and a completed cycle has ended in Report.
C22_StepOrder ==
    LET c == qec.cycle.calls
    IN  /\ Len(c) <= Len(StepOrder)
        /\ \A k \in 1..Len(c) : c[k].step = StepOrder[k]
        /\ (Len(c) > 0) => qec.cycle.pc = c[Len(c)].step
        /\ (Len(c) >= 2) => c[2].args = <<c[1].out>>
        /\ (Len(c) >= 3) => c[3].args = <<c[2].out>>
        /\ (Len(c) >= 4) => c[4].args = <<c[1].out, c[3].out>>
        /\ (Len(c) = 5) => /\ c[5].out[1] = c[4].out
                           /\ c[5].out[2].errors_detected = Len(c[3].out)
        /\ (qec.cycles > 0 /\ qec.cycle.pc \in {"none", "Report"}) => Len(c) = 5

\* C22 witness: the second cycle of the surface engine has gone through all
\* five steps and reported two detected errors.
C22_Witness ==
    /\ qec.cycle.pc = "Report"
    /\ qec.cycles = 2
    /\ qec.engine.code.class = "SurfaceCode"
    /\ Len(qec.cycle.errors) = 2
    /\ Len(qec.cycle.calls) = 5

\* out is what one pass through a stage of the given gain (in dB) makes of
\* inp, for some noise array of the stage
OnePassThrough(gain_db, inp, out) ==
    \E noise \in NoiseArrays :
        /\ Len(out) = Len(inp)
        /\ \A k \in 1..Len(inp) :
              out[k] = CAdd(CScale(GainLinear(gain_db), inp[k]), noise[k])

\* C23: in every successful run_readout the ideal tone passes through the
\* '4K' stage (35 dB) once and then the 'MXC' stage (25 dB) once, the output
\* of the first being the input of the second, and the reported
\* snr_improvement is computed from the ideal tone and the MXC output.
C23_ChainOrder ==
    ReadoutDone =>
        /\ chain.ideal_signal =
              generate_readout_signal(objs[MeasuredHandle(ret)].spec)
        /\ OnePassThrough(35, chain.ideal_signal, chain.signal_4k)
        /\ OnePassThrough(25, chain.signal_4k, chain.signal_mxc)
        /\ recs[ret.val]["signal_power_4k"] = Power(chain.signal_4k)
        /\ recs[ret.val]["signal_power_mxc"] = Power(chain.signal_mxc)
        /\ recs[ret.val]["snr_improvement"] =
              calculate_snr_improvement(chain.ideal_signal, chain.signal_mxc)

\* C23 witness: a readout has returned whose reported SNR improvement is not
\* what the computation gives for the ideal tone and the first stage's output.
C23_Witness ==
    /\ ReadoutDone
    /\ NonDegenerateChain
    /\ recs[ret.val]["snr_improvement"] #
          calculate_snr_improvement(chain.ideal_signal, chain.signal_4k)

\* The exact action of the gate on (a0, a1, a2, a3): CNOT gives
\* (a0, a1, a3, a2), CZ gives (a0, a1, a2, -a3); the scale is kept
ExactGateAction(gate_type, state) ==
    LET a == state.amp
    IN  IF gate_type = "CNOT"
        THEN Vec(<<a[1], a[2], a[4], a[3]>>, state.sq, state.den)
        ELSE Vec(<<a[1], a[2], a[3], CScale(0 - 1, a[4])>>, state.sq, state.den)

\* C24: for gate kind CNOT or CZ, apply_to_state makes exactly one uniform
\* draw u (and a second, normal, draw only to perturb the matrix); when u does
\* not exceed the fidelity the result is the exact gate action, the matrix is
\* perturbed only when u > fidelity, and with fidelity = 1 the output always
\* equals the exact gate action.
C24_ExactActionWithinFidelity ==
    (GateCallDone("apply_to_state") /\ gcall.gate \in {"CNOT", "CZ"}) =>
        /\ gcall.status = "ok"
        /\ gcall.draws = IF gcall.u > gcall.fidelity THEN 2 ELSE 1
        /\ gcall.u <= gcall.fidelity =>
              gcall.out = ExactGateAction(gcall.gate, gcall.inp)
        /\ gcall.out # ExactGateAction(gcall.gate, gcall.inp) =>
              gcall.u > gcall.fidelity
        /\ gcall.fidelity = 100 =>
              gcall.out = ExactGateAction(gcall.gate, gcall.inp)

\* C24 witness: CNOT with a draw equal to the fidelity has exchanged the last
\* two amplitudes of (1, i, -1, -i) / 2.
C24_Witness ==
    /\ GateCallDone("apply_to_state")
    /\ gcall.gate = "CNOT"
    /\ gcall.fidelity = 98
    /\ gcall.u = 98
    /\ gcall.inp = Vec(<<Cx(1, 0), Cx(0, 1), Cx(0 - 1, 0), Cx(0, 0 - 1)>>, 2, 1)
    /\ gcall.out = Vec(<<Cx(1, 0), Cx(0, 1), Cx(0, 0 - 1), Cx(0 - 1, 0)>>, 2, 1)

\* C25 (as claimed): the SNR-improvement computation never raises and never
\* yields an undefined result: with a zero-variance input or output it returns
\* a defined sentinel such as infinity or zero.
C25_SnrAlwaysDefined ==
    ReadoutDone =>
        snr_improvement_kind(chain.ideal_signal, chain.signal_mxc) # "nan"

\* This step is an apply_x_gate call
IsXGateStep == ret'.op = "apply_x_gate" /\ xcount' # xcount

\* C26: apply_x_gate on one qubit replaces only that qubit's state vector:
\* its spec, temperature and measurement history are unchanged, and the
\* state, spec, temperature and history of every other qubit, the qubit
\* collection and every measurement record are unchanged.
C26_XGateFrame ==
    [][IsXGateStep =>
        /\ qubits' = qubits
        /\ recs' = recs
        /\ Len(objs') = Len(objs)
        /\ \A g \in 1..Len(objs) :
              IF g = ret'.args[1]
              THEN /\ objs'[g].state = <<objs[g].state[2], objs[g].state[1]>>
                   /\ objs'[g].spec = objs[g].spec
                   /\ objs'[g].temperature = objs[g].temperature
                   /\ objs'[g].measurement_results = objs[g].measurement_results
              ELSE objs'[g] = objs[g]
      ]_vars

\* C26 witness: in a system of two qubits an X gate has put one qubit in |1>
\* while the other is still in |0>.
C26_Witness ==
    /\ ret.op = "apply_x_gate"
    /\ Len(objs) = 2
    /\ objs[ret.args[1]].state = <<CZero, COne>>
    /\ \E g \in 1..2 : g # ret.args[1] /\ objs[g].state = <<COne, CZero>>

\* C27: in the repetition strategy the Correct step is a no-op on the state:
\* for every input and every sampled syndrome the state returned by
\* run_qec_cycle equals the encoded state, whether or not errors were detected.
C27_RepetitionCorrectNoOp ==
    CycleDone("RepetitionCode") =>
        /\ qec.cycle.corrected_state = qec.cycle.encoded_state
        /\ qec.cycle.encoded_state =
              RepetitionCode_encode_logical_qubit(qec.engine.code, qec.cycle.state)

\* C27 witness: a repetition cycle that detected an error returned the
\* encoded state.
C27_Witness ==
    /\ CycleDone("RepetitionCode")
    /\ qec.cycle.errors = <<2>>
    /\ qec.cycle.corrected_state = qec.cycle.encoded_state

\* The vector v equals the vector w multiplied by num / 10
IsScaledByTenths(v, w, num) ==
    /\ Len(v.amp) = Len(w.amp)
    /\ v.sq = w.sq
    /\ \A k \in 1..Len(w.amp) :
          CScale(10 * w.den, v.amp[k]) = CScale(num * v.den, w.amp[k])

\* C28: in the surface strategy the state returned by a cycle is the encoded
\* state (length 2 * 2^distance, the tensor product of the logical state with
\* the uniform vector over 2^distance positions) multiplied by 1 - 0.1 * n,
\* n the number of errors detected in that cycle; with n = 0 the encoded
\* state is returned unchanged.
C28_SurfaceCorrectScales ==
    CycleDone("SurfaceCode") =>
        LET m == Pow(2, qec.engine.code.distance)
            n == qec.cycle.results.errors_detected
            enc == qec.cycle.encoded_state
        IN  /\ Len(enc.amp) = 2 * m
            /\ \A k \in 1..m : enc.amp[k] = qec.cycle.state.amp[1]
                            /\ enc.amp[m + k] = qec.cycle.state.amp[2]
            /\ enc.sq = qec.cycle.state.sq + qec.engine.code.distance
            /\ enc.den = qec.cycle.state.den
            /\ IsScaledByTenths(qec.cycle.corrected_state, enc, 10 - n)
            /\ n = 0 => qec.cycle.corrected_state = enc

\* C28 witness: a surface cycle on (0.8, 0.6) that detected two errors
\* returned the encoded state times 0.8.
C28_Witness ==
    /\ CycleDone("SurfaceCode")
    /\ qec.cycle.state = Vec(<<Cx(4, 0), Cx(3, 0)>>, 0, 5)
    /\ qec.cycle.results.errors_detected = 2
    /\ qec.cycle.corrected_state.amp[1] = Cx(32, 0)
    /\ qec.cycle.corrected_state.amp[16] = Cx(24, 0)
    /\ qec.cycle.corrected_state.den = 50

\* This step is a readout call that returned a result
IsReadoutResultStep == IsReadoutStep /\ ret'.status = "ok" /\ recs' # recs

\* The last call returned a readout result for the handle h
LastReadoutOf(h) ==
    /\ ret.op \in {"simulate_measurement", "run_readout"}
    /\ ret.status = "ok"
    /\ MeasuredHandle(ret) = h

\* C29: readout does not collapse or otherwise alter the qubit's amplitudes:
\* every simulate_measurement / run_readout call leaves the state vector as it
\* was and reports true_probability = |amplitude of |1>|^2 of that state (0
\* for |0>, 1 for |1>), so calls with no gate in between report the same
\* value; the reported readout_fidelity is always 0.95.
C29_ReadoutKeepsAmplitudes ==
    [][IsReadoutResultStep =>
        LET h == MeasuredHandle(ret')
            new == recs'[ret'.val]
        IN  /\ objs'[h].state = objs[h].state
            /\ new["true_probability"] = CAbs2(objs[h].state[2])
            /\ objs[h].state = <<COne, CZero>> => new["true_probability"] = 0
            /\ objs[h].state = <<CZero, COne>> => new["true_probability"] = 1
            /\ new["readout_fidelity"] = 95
            /\ LastReadoutOf(h) =>
                  new["true_probability"] = recs[ret.val]["true_probability"]
      ]_vars

\* C29 witness: a qubit has been read out twice in a row, and both records
\* report the same true_probability.
C29_Witness ==
    /\ ret.op = "run_readout"
    /\ ret.status = "ok"
    /\ \E h \in 1..Len(objs) :
          /\ Len(objs[h].measurement_results) = 2
          /\ objs[h].measurement_results[2] = ret.val
          /\ recs[objs[h].measurement_results[1]]["true_probability"] =
                recs[ret.val]["true_probability"]

\* The 0-based positions of m holding 1, in increasing order
PositionsHoldingOne(m) ==
    SelectSeq([i \in 1..Len(m) |-> i - 1], LAMBDA i : m[i + 1] = 1)

\* C30: RepetitionCode.detect_errors never reports a majority of positions as
\* erroneous: for every syndrome over r positions the number of detected
\* errors is at most floor(r / 2) (at most 1 for r = 3), and for even r a tie
\* is resolved to the majority value 0, so exactly the r / 2 positions holding
\* 1 are reported.
C30_AtMostHalfReported ==
    /\ QecCallDone("RepetitionCode.detect_errors") =>
          LET r == qec.call.self.repetitions
              m == qec.call.measurements
          IN  /\ Len(qec.call.out) <= r \div 2
              /\ 2 * ISum(m) = r =>
                    /\ qec.call.out = PositionsHoldingOne(m)
                    /\ Len(qec.call.out) = r \div 2
    /\ CycleDone("RepetitionCode") => Len(qec.cycle.errors) <= 1

\* C30 witness: the tied 4-position syndrome (1, 0, 0, 1) has been examined
\* and its first and last positions reported.
C30_Witness ==
    /\ QecCallDone("RepetitionCode.detect_errors")
    /\ qec.call.self.repetitions = 4
    /\ qec.call.measurements = <<1, 0, 0, 1>>
    /\ qec.call.out = <<0, 3>>

====
